---- MODULE Spec2Model ----
(***************************************************************************)
(* Model of boltons/ioutils.py: SpooledIOBase, SpooledBytesIO and          *)
(* SpooledStringIO.  A stream keeps its content in an in-memory BytesIO    *)
(* until a write leaves the cursor at or beyond max_size, then copies it   *)
(* into a TemporaryFile ("rollover").  The text variant wraps its backend  *)
(* in codecs.EncodedFile(..., 'utf-8'), i.e. a StreamRecoder whose reader  *)
(* keeps decoded-but-unreturned characters and undecoded bytes.            *)
(*                                                                         *)
(* Bytes are integers 0..255, text is a sequence of code points.  Every    *)
(* method is an operator from a stream record to a result record           *)
(* [st, out, data, num]: the stream after the call, "ok" or the name of    *)
(* the exception raised, and the returned bytes/characters or number.      *)
(***************************************************************************)
EXTENDS Integers, Sequences, FiniteSets, TLC

VARIABLES streams, last, hist

vars == <<streams, last, hist>>

\* Bounds of the exploration.
MaxThreshold == 3
MaxLen == 3

\* Seeks are explored as far as content can reach.
MaxPos == MaxLen

Min(a, b) == IF a < b THEN a ELSE b

Max(a, b) == IF a > b THEN a ELSE b

Take(s, n) == SubSeq(s, 1, Min(Max(n, 0), Len(s)))

Drop(s, n) == SubSeq(s, Min(Max(n, 0), Len(s)) + 1, Len(s))

Zeros(n) == [k \in 1..n |-> 0]

\* Result of a call: stream afterwards, outcome, returned data, returned number.
Res(st, out, data, num) == [st |-> st, out |-> out, data |-> data, num |-> num]

Ok(st) == Res(st, "ok", <<>>, -1)

OkData(st, data) == Res(st, "ok", data, -1)

OkNum(st, num) == Res(st, "ok", <<>>, num)

Raise(st, exc) == Res(st, exc, <<>>, -1)

Failed(r) == r.out # "ok"

\* Sequencing of calls: go on with the result of a call that returned, let
\* the exception of one that raised propagate.
Then(r, f(_)) == IF Failed(r) THEN r ELSE f(r)

\* A local name for a value.
With(x, f(_)) == f(x)

----------------------------------------------------------------------------
(* UTF-8, for code points below 2048 (one- and two-byte sequences).         *)

\* s.encode('utf-8')
RECURSIVE Utf8Encode(_)
Utf8Encode(chars) ==
    IF chars = <<>> THEN <<>>
    ELSE LET c == Head(chars)
             enc == IF c < 128 THEN <<c>>
                    ELSE <<192 + (c \div 64), 128 + (c % 64)>>
         IN  enc \o Utf8Encode(Tail(chars))

IsContinuation(b) == b >= 128 /\ b <= 191

IsLead2(b) == b >= 194 /\ b <= 223

\* codecs.utf_8_decode(data, 'strict', final): decodes whole sequences from
\* the front of data.  Returns the characters, the number of bytes consumed
\* and whether the codec raised UnicodeDecodeError.  With final = FALSE an
\* incomplete sequence at the end is left unconsumed; with final = TRUE it
\* is an error.
RECURSIVE Utf8Decode(_, _)
Utf8Decode(data, final) ==
    IF data = <<>> THEN [chars |-> <<>>, used |-> 0, err |-> FALSE]
    ELSE LET b == Head(data) IN
         IF b < 128
         THEN LET r == Utf8Decode(Tail(data), final)
              IN  [chars |-> <<b>> \o r.chars, used |-> 1 + r.used, err |-> r.err]
         ELSE IF IsLead2(b)
         THEN IF Len(data) = 1
              THEN [chars |-> <<>>, used |-> 0, err |-> final]
              ELSE IF IsContinuation(data[2])
              THEN LET r == Utf8Decode(Tail(Tail(data)), final)
                   IN  [chars |-> <<(b - 192) * 64 + (data[2] - 128)>> \o r.chars,
                        used |-> 2 + r.used, err |-> r.err]
              ELSE [chars |-> <<>>, used |-> 0, err |-> TRUE]
         ELSE [chars |-> <<>>, used |-> 0, err |-> TRUE]

----------------------------------------------------------------------------
(* Lines.  Among the values explored the only line boundary is "\n" (10),   *)
(* on which bytes.splitlines, str.splitlines and the backends' readline     *)
(* agree.                                                                   *)

IsLineEnd(c) == c = 10

\* The first line of s, its line end included: s.splitlines(True)[0]
RECURSIVE FirstLine(_)
FirstLine(s) ==
    IF s = <<>> THEN <<>>
    ELSE IF IsLineEnd(Head(s)) THEN <<Head(s)>>
    ELSE <<Head(s)>> \o FirstLine(Tail(s))

\* s.splitlines(True)
RECURSIVE SplitLines(_)
SplitLines(s) ==
    IF s = <<>> THEN <<>>
    ELSE <<FirstLine(s)>> \o SplitLines(Drop(s, Len(FirstLine(s))))

----------------------------------------------------------------------------
(* The backend file object: io.BytesIO while in memory, the file returned   *)
(* by tempfile.TemporaryFile() once rolled.  st.buf is its content, st.pos  *)
(* its position, st.closed its closed flag.                                 *)

\* The temporary file is a buffered file: written bytes reach the file
\* system when the file object flushes, which every call of it does except
\* write, tell and fileno.  st.fsize is the size the file system reports.
Synced(st) == IF st.rolled THEN [st EXCEPT !.fsize = Len(st.buf)] ELSE st

raw_read(st, n) ==
    IF st.closed THEN Raise(st, "ValueError")
    ELSE LET avail == Drop(st.buf, st.pos)
             data == IF n < 0 THEN avail ELSE Take(avail, n)
         IN  OkData(Synced([st EXCEPT !.pos = @ + Len(data)]), data)

\* readline() of the backend: up to and including the next line end.
raw_readline(st) ==
    IF st.closed THEN Raise(st, "ValueError")
    ELSE With(FirstLine(Drop(st.buf, st.pos)), LAMBDA line :
              OkData(Synced([st EXCEPT !.pos = @ + Len(line)]), line))

\* readlines() of the backend: all lines up to the end, as a list.
raw_readlines(st) ==
    IF st.closed THEN Raise(st, "ValueError")
    ELSE With(Drop(st.buf, st.pos), LAMBDA rest :
              OkData(Synced([st EXCEPT !.pos = @ + Len(rest)]), SplitLines(rest)))

raw_write(st, data) ==
    IF st.closed THEN Raise(st, "ValueError")
    ELSE IF data = <<>> THEN OkNum(st, 0)
    ELSE LET padded == IF st.pos > Len(st.buf)
                       THEN st.buf \o Zeros(st.pos - Len(st.buf))
                       ELSE st.buf
             new == Take(padded, st.pos) \o data \o Drop(padded, st.pos + Len(data))
         IN  OkNum([st EXCEPT !.buf = new, !.pos = @ + Len(data)], Len(data))

raw_tell(st) ==
    IF st.closed THEN Raise(st, "ValueError") ELSE OkNum(st, st.pos)

\* whence: 0 = SEEK_SET, 1 = SEEK_CUR, 2 = SEEK_END.  A negative target is
\* rejected by the file; BytesIO rejects it for SEEK_SET and clamps it to 0
\* otherwise.
raw_seek(st, offset, whence) ==
    IF st.closed THEN Raise(st, "ValueError")
    ELSE LET target == CASE whence = 0 -> offset
                         [] whence = 1 -> st.pos + offset
                         [] OTHER -> Len(st.buf) + offset
         IN  IF target >= 0 THEN OkNum(Synced([st EXCEPT !.pos = target]), target)
             ELSE IF st.rolled THEN Raise(Synced(st), "IOError")
             ELSE IF whence = 0 THEN Raise(st, "ValueError")
             ELSE OkNum([st EXCEPT !.pos = 0], 0)

\* file.truncate(size) resizes the file, extending it with zero bytes when
\* size is beyond the end; BytesIO.truncate(size) only ever shrinks.  Neither
\* moves the position.
raw_truncate(st, size) ==
    IF st.closed THEN Raise(st, "ValueError")
    ELSE LET new == IF size <= Len(st.buf) THEN Take(st.buf, size)
                    ELSE IF st.rolled THEN st.buf \o Zeros(size - Len(st.buf))
                    ELSE st.buf
         IN  OkNum(Synced([st EXCEPT !.buf = new]), size)

raw_flush(st) ==
    IF st.closed THEN Raise(st, "ValueError") ELSE Ok(Synced(st))

\* close() releases the content: a closed BytesIO has given up its buffer and
\* the anonymous temporary file is gone once it is closed.
raw_close(st) == Ok([st EXCEPT !.closed = TRUE, !.buf = <<>>, !.pos = 0, !.fsize = 0])

\* os.fstat(fd).st_size
fstat_size(st) == OkNum(st, st.fsize)

raw_fileno(st) ==
    IF st.closed THEN Raise(st, "ValueError")
    ELSE IF st.rolled THEN OkNum(st, 3)
    ELSE Raise(st, "UnsupportedOperation")

----------------------------------------------------------------------------------------------------------------------------------------
(* codecs.EncodedFile(backend, data_encoding='utf-8'): a StreamRecoder.     *)
(* st.bb and st.cb are its StreamReader's bytebuffer and charbuffer;        *)
(* st.lined tells that the reader holds the characters of st.cb as a list   *)
(* of lines (its linebuffer) instead.                                       *)

\* StreamReader.read(size, firstline): reads size bytes at a time from the
\* backend until size characters are decoded (everything, when size is
\* negative); undecoded trailing bytes stay in bytebuffer, surplus
\* characters in charbuffer.  With firstline, a decoding error behind more
\* than one decoded line is put off: the lines before it are kept.
RECURSIVE reader_fill(_, _, _)
reader_fill(st, size, firstline) ==
    IF size >= 0 /\ Len(st.cb) >= size THEN Ok(st)
    ELSE Then(raw_read(st, size), LAMBDA rd :
         With(st.bb \o rd.data, LAMBDA data :
         IF data = <<>> THEN Ok(rd.st)
         ELSE With(Utf8Decode(data, FALSE), LAMBDA dec :
              IF dec.err /\ ~(firstline /\ Len(SplitLines(dec.chars)) > 1)
              THEN Raise(rd.st, "UnicodeDecodeError")
              ELSE With([rd.st EXCEPT !.bb = Drop(data, dec.used),
                                      !.cb = @ \o dec.chars], LAMBDA st2 :
                   IF rd.data = <<>> THEN Ok(st2)
                   ELSE reader_fill(st2, size, firstline)))))

\* A cached list of lines is first merged back into the charbuffer.
reader_read(st, size, firstline) ==
    Then(reader_fill([st EXCEPT !.lined = FALSE], size, firstline), LAMBDA f :
         IF size < 0 THEN OkData([f.st EXCEPT !.cb = <<>>], f.st.cb)
         ELSE OkData([f.st EXCEPT !.cb = Drop(@, size)], Take(f.st.cb, size)))

\* The number of bytes StreamReader.readline asks for at first.
ReadSize == 72

\* What readline does with the characters it has: the first line is
\* returned; what follows goes to the linebuffer when it is more than one
\* line and to the charbuffer otherwise.
reader_take_line(st, chars) ==
    With(FirstLine(chars), LAMBDA line :
    With(Drop(chars, Len(line)), LAMBDA rest :
         OkData([st EXCEPT !.cb = rest \o st.cb,
                           !.lined = Len(SplitLines(rest)) > 1], line)))

\* StreamReader.readline(): served from the linebuffer when there is one,
\* without a read of the backend; otherwise from a read of ReadSize.
reader_readline(st) ==
    IF st.lined THEN reader_take_line([st EXCEPT !.cb = <<>>], st.cb)
    ELSE Then(reader_read(st, ReadSize, TRUE), LAMBDA r : reader_take_line(r.st, r.data))

\* StreamRecoder.read: the reader's characters, encoded back to bytes.
recoder_read(st, size) ==
    Then(reader_read(st, size, FALSE), LAMBDA r : OkData(r.st, Utf8Encode(r.data)))

\* StreamRecoder.readline
recoder_readline(st) ==
    Then(reader_readline(st), LAMBDA r : OkData(r.st, Utf8Encode(r.data)))

\* StreamRecoder.readlines: everything the reader has and can read, encoded
\* and split into lines.
recoder_readlines(st) ==
    Then(reader_read(st, -1, FALSE), LAMBDA r :
         OkData(r.st, SplitLines(Utf8Encode(r.data))))

\* StreamRecoder.write: decode the data, the StreamWriter encodes and writes.
recoder_write(st, data) ==
    With(Utf8Decode(data, TRUE), LAMBDA dec :
         IF dec.err THEN Raise(st, "UnicodeDecodeError")
         ELSE raw_write(st, Utf8Encode(dec.chars)))

\* StreamReader.reset
reader_reset(st) == [st EXCEPT !.bb = <<>>, !.cb = <<>>, !.lined = FALSE]

\* StreamRecoder.seek: reader.seek (backend seek, then reset of the reader's
\* buffers) followed by writer.seek (the same backend seek once more, so a
\* SEEK_CUR offset is applied twice).
recoder_seek(st, offset, whence) ==
    Then(raw_seek(st, offset, whence), LAMBDA r :
    Then(raw_seek(reader_reset(r.st), offset, whence), LAMBDA w : Ok(w.st)))

----------------------------------------------------------------------------
(* The buffer property and the calls made through it.                       *)

IsText(st) == st.variant = "text"

\* SpooledBytesIO.buffer / SpooledStringIO.buffer: create the in-memory
\* backend on first access.
buffer(st) == [st EXCEPT !.allocated = TRUE]

buffer_read(st, n) ==
    IF IsText(st) THEN recoder_read(buffer(st), n) ELSE raw_read(buffer(st), n)

buffer_write(st, data) ==
    IF IsText(st) THEN recoder_write(buffer(st), data) ELSE raw_write(buffer(st), data)

buffer_seek(st, offset, whence) ==
    IF IsText(st) THEN recoder_seek(buffer(st), offset, whence)
    ELSE raw_seek(buffer(st), offset, whence)

\* SpooledBytesIO._rolled / SpooledStringIO._rolled
_rolled(st) == buffer(st).rolled

\* SpooledIOBase.tell
tell(st) == raw_tell(buffer(st))

\* Variant: seek applies the threshold to the position it reaches.
seek_with_threshold(st, pos, mode) ==
    Then(buffer_seek(st, pos, mode), LAMBDA r :
         IF r.st.pos >= r.st.max_size /\ ~r.st.rolled
         THEN With(r.st, LAMBDA t :
                   Res([t EXCEPT !.rolled = TRUE, !.fsize = Len(t.buf)], r.out, r.data, r.num))
         ELSE r)

\* SpooledIOBase.seek
seek(st, pos, mode) == buffer_seek(st, pos, mode)

\* SpooledIOBase.close
close(st) == raw_close(buffer(st))

\* SpooledIOBase.flush
flush(st) == raw_flush(buffer(st))

\* SpooledIOBase.closed
closed(st) == buffer(st).closed

\* SpooledIOBase._file
_file(st) == buffer(st)

\* SpooledIOBase.__enter__: returns the stream itself.
__enter__(st) == Ok(st)

\* Variant: a stream whose backend was never created is left alone.
exit_existing_only(st) ==
    IF st.allocated THEN Then(raw_close(st), LAMBDA r : OkNum(r.st, 0)) ELSE OkNum(st, 0)

\* SpooledIOBase.__exit__: closes the backend and returns None, so an error
\* raised in the block is not suppressed (num 0).
__exit__(st) == Then(raw_close(_file(st)), LAMBDA r : OkNum(r.st, 0))

\* Variant: the text variant hands out the buffer's bytes undecoded.
read_undecoded(st, n) == buffer_read(st, n)

\* SpooledBytesIO.read / SpooledStringIO.read: the text variant decodes what
\* the buffer returned.
read(st, n) ==
    Then(buffer_read(st, n), LAMBDA r :
         IF ~IsText(st) THEN r
         ELSE With(Utf8Decode(r.data, TRUE), LAMBDA dec :
              IF dec.err THEN Raise(r.st, "UnicodeDecodeError")
              ELSE OkData(r.st, dec.chars)))

buffer_readline(st) ==
    IF IsText(st) THEN recoder_readline(buffer(st)) ELSE raw_readline(buffer(st))

buffer_readlines(st) ==
    IF IsText(st) THEN recoder_readlines(buffer(st)) ELSE raw_readlines(buffer(st))

\* SpooledBytesIO.readline / SpooledStringIO.readline, called without a
\* length: the text variant decodes the line the buffer returned.
readline(st) ==
    Then(buffer_readline(st), LAMBDA r :
         IF ~IsText(st) THEN r
         ELSE With(Utf8Decode(r.data, TRUE), LAMBDA dec :
              IF dec.err THEN Raise(r.st, "UnicodeDecodeError")
              ELSE OkData(r.st, dec.chars)))

\* SpooledBytesIO.readlines / SpooledStringIO.readlines, called without a
\* size hint: the text variant decodes each line of the list.
readlines(st) ==
    Then(buffer_readlines(st), LAMBDA r :
         IF ~IsText(st) THEN r
         ELSE With([k \in 1..Len(r.data) |-> Utf8Decode(r.data[k], TRUE)], LAMBDA decs :
              IF \E k \in 1..Len(decs) : decs[k].err
              THEN Raise(r.st, "UnicodeDecodeError")
              ELSE OkData(r.st, [k \in 1..Len(decs) |-> decs[k].chars])))

\* SpooledIOBase.next
next(st) == readline(st)

\* SpooledIOBase.__iter__, run to exhaustion as "for line in stream" does:
\* a generator with the single statement "yield self.readline()".  The
\* result is the list of the values it yields.
__iter__(st) == Then(readline(st), LAMBDA r : OkData(r.st, <<r.data>>))

\* tmp = TemporaryFile(), wrapped in a new EncodedFile by the text variant.
TemporaryFile(st) ==
    [st EXCEPT !.allocated = TRUE, !.rolled = TRUE, !.closed = FALSE,
               !.buf = <<>>, !.pos = 0, !.bb = <<>>, !.cb = <<>>, !.lined = FALSE,
               !.fsize = 0]

\* Variant: the temporary file is left at its start.
tmp_seek_start(tmp, pos) == buffer_seek(tmp, 0, 0)

\* tmp.seek(pos)
tmp_seek(tmp, pos) == buffer_seek(tmp, pos, 0)

\* The body of rollover(): copy the in-memory content into a temporary file,
\* put that file at the recorded position, and make it the buffer.
copy_to_tmp(st) ==
    Then(tell(st), LAMBDA t :
    Then(buffer_seek(t.st, 0, 0), LAMBDA sk :
    Then(buffer_read(sk.st, -1), LAMBDA rd :
    With(buffer_write(TemporaryFile(st), rd.data), LAMBDA wr :
         IF Failed(wr) THEN Raise(rd.st, wr.out)
         ELSE Then(tmp_seek(wr.st, t.num), LAMBDA ts : Ok(ts.st))))))

\* Variant: the copy is made whether or not the stream is already on disk.
rollover_unguarded(st) == copy_to_tmp(st)

\* SpooledBytesIO.rollover / SpooledStringIO.rollover
rollover(st) ==
    IF _rolled(st) THEN Ok(buffer(st)) ELSE copy_to_tmp(st)

\* v is the value passed to write: [kind |-> "bytes" or "text", val |-> ...].
AcceptedKind(st) == IF IsText(st) THEN "text" ELSE "bytes"

\* Variant: an empty value of the wrong kind passes the check.
type_mismatch_nonempty(st, v) == v.val # <<>> /\ v.kind # AcceptedKind(st)

\* not isinstance(s, six.binary_type) / not isinstance(s, six.text_type)
type_mismatch(st, v) == v.kind # AcceptedKind(st)

\* Variant: the stream rolls over one byte before the threshold.
reached_max_size_early(position, max_size) == position + 1 >= max_size

\* Variant: the stream rolls over only beyond the threshold.
reached_max_size_late(position, max_size) == position > max_size

\* The test made after the backend write: self.tell() >= self._max_size
reached_max_size(position, max_size) == position >= max_size

\* SpooledBytesIO.write / SpooledStringIO.write
write(st, v) ==
    IF type_mismatch(st, v) THEN Raise(st, "TypeError")
    ELSE Then(buffer_write(st, IF IsText(st) THEN Utf8Encode(v.val) ELSE v.val),
              LAMBDA w :
         Then(tell(w.st), LAMBDA t :
              IF reached_max_size(t.num, st.max_size)
              THEN Then(rollover(t.st), LAMBDA r : Ok(r.st))
              ELSE Ok(t.st)))

\* SpooledIOBase.fileno
fileno(st) == Then(rollover(st), LAMBDA r : raw_fileno(buffer(r.st)))

\* SpooledIOBase.len
len(st) ==
    IF _rolled(st)
    THEN Then(fileno(st), LAMBDA f : fstat_size(f.st))
    ELSE Then(tell(st), LAMBDA t :
         Then(seek(t.st, 0, 2), LAMBDA e :
         Then(tell(e.st), LAMBDA v :
         Then(seek(v.st, t.num, 0), LAMBDA b : OkNum(b.st, v.num)))))

\* SpooledIOBase.truncate(): no size given, the backend truncates at its
\* current position.
truncate_here(st) == raw_truncate(buffer(st), st.pos)

\* Variant: -1 is let through.
negative_size_below(size) == size < -1

\* The argument check of truncate(size): size < 0
negative_size(size) == size < 0

\* Variant: truncating to nothing starts over with a new in-memory buffer.
truncate_starting_over(st, size) ==
    IF size = 0 /\ ~st.closed
    THEN Ok([st EXCEPT !.allocated = TRUE, !.rolled = FALSE, !.buf = <<>>, !.pos = 0,
                       !.bb = <<>>, !.cb = <<>>, !.lined = FALSE, !.fsize = 0])
    ELSE Then(tell(st), LAMBDA t :
         Then(seek(t.st, size, 0), LAMBDA sk :
         Then(raw_truncate(buffer(sk.st), size), LAMBDA tr :
              IF t.num < size
              THEN Then(seek(tr.st, t.num, 0), LAMBDA b : Ok(b.st))
              ELSE Ok(tr.st))))

\* Variant: the cursor is left where the truncation put it.
truncate_without_return(st, size) ==
    IF size < 0 THEN Raise(st, "IOError")
    ELSE Then(tell(st), LAMBDA t :
         Then(seek(t.st, size, 0), LAMBDA sk :
         Then(raw_truncate(buffer(sk.st), size), LAMBDA tr : Ok(tr.st))))

\* SpooledIOBase.truncate(size)
truncate(st, size) ==
    IF negative_size(size) THEN Raise(st, "IOError")
    ELSE Then(tell(st), LAMBDA t :
         Then(seek(t.st, size, 0), LAMBDA sk :
         Then(raw_truncate(buffer(sk.st), size), LAMBDA tr :
              IF t.num < size
              THEN Then(seek(tr.st, t.num, 0), LAMBDA b : Ok(b.st))
              ELSE Ok(tr.st))))

\* Variant: the content is read from wherever the cursor is.
seek_start_skipped(st) == seek(st, 0, 1)

\* self.seek(0) in getvalue
seek_start(st) == seek(st, 0, 0)

\* SpooledIOBase.getvalue
getvalue(st) ==
    Then(tell(st), LAMBDA t :
    Then(seek_start(t.st), LAMBDA sk :
    Then(read(sk.st, -1), LAMBDA rd :
    Then(seek(rd.st, t.num, 0), LAMBDA b : OkData(b.st, rd.data)))))

\* SpooledIOBase.__eq__ on two different stream objects: getvalue() of self,
\* then of other.  num is 1 for True and 0 for False; bytes never equal text.
eq(sa, sb) ==
    With(getvalue(sa), LAMBDA ga :
         IF Failed(ga) THEN [a |-> ga.st, b |-> sb, out |-> ga.out, num |-> -1]
         ELSE With(getvalue(sb), LAMBDA gb :
              IF Failed(gb) THEN [a |-> ga.st, b |-> gb.st, out |-> gb.out, num |-> -1]
              ELSE [a |-> ga.st, b |-> gb.st, out |-> "ok",
                    num |-> IF sa.variant = sb.variant /\ ga.data = gb.data
                            THEN 1 ELSE 0]))

\* SpooledIOBase.__eq__ of a stream with itself: both getvalue() calls act on
\* the same object.
eq_self(st) ==
    Then(getvalue(st), LAMBDA ga :
    Then(getvalue(ga.st), LAMBDA gb :
         OkNum(gb.st, IF ga.data = gb.data THEN 1 ELSE 0)))

\* SpooledIOBase.__ne__
Negate(num) == IF num < 0 THEN num ELSE 1 - num

----------------------------------------------------------------------------
(* The state machine.  streams maps each stream object to its record; last  *)
(* describes the most recent call (what was called, on which stream, with   *)
(* which arguments, and what it returned or raised); hist remembers, per    *)
(* stream, what has been written while the stream has only been written to  *)
(* since construction.                                                      *)

\* SpooledIOBase.__init__: only _max_size is set, no backend exists yet.
NewStream(variant, max_size) ==
    [variant |-> variant, max_size |-> max_size, allocated |-> FALSE,
     rolled |-> FALSE, closed |-> FALSE, buf |-> <<>>, pos |-> 0,
     bb |-> <<>>, cb |-> <<>>, lined |-> FALSE, fsize |-> 0]

Variants == {"bytes", "text"}

\* Values passed to write: byte strings and text, 10 being "\n" and 233
\* U+00E9.
BytesValues == {<<>>, <<97>>, <<98, 10>>}

TextValues == {<<>>, <<10>>, <<233>>}

WriteValues == [kind : {"bytes"}, val : BytesValues] \cup [kind : {"text"}, val : TextValues]

ReadSizes == {-1, 1, 2}

SeekArgs == [offset : 0..MaxPos, whence : {0}] \cup [offset : {1}, whence : {1}]
            \cup [offset : {-1, 0}, whence : {2}]

TruncateSizes == -2..MaxLen

Ids == DOMAIN streams

NoVal == [kind |-> "none", val |-> <<>>]

\* was: whether the stream was already on disk when the call was made.
Call(op, id, n, m, v, was, out, data, num) ==
    [op |-> op, id |-> id, n |-> n, m |-> m, v |-> v, was |-> was,
     out |-> out, data |-> data, num |-> num]

NoHist == [stage |-> "other", written |-> <<>>]

FreshHist == [stage |-> "writes", written |-> <<>>]

InitWith(ids) ==
    /\ streams \in [ids -> {NewStream(v, t) : v \in Variants, t \in 1..MaxThreshold}]
    /\ last = Call("init", 0, 0, 0, NoVal, FALSE, "ok", <<>>, -1)
    /\ hist = [i \in ids |-> FreshHist]

Init == InitWith({1})

InBounds(st) == Len(st.buf) <= MaxLen /\ st.pos <= MaxPos

\* The effect of a call on stream i that returned r.
Step(i, r, op, n, m, v, h) ==
    /\ InBounds(r.st)
    /\ streams' = [streams EXCEPT ![i] = r.st]
    /\ last' = Call(op, i, n, m, v, streams[i].rolled, r.out, r.data, r.num)
    /\ hist' = [hist EXCEPT ![i] = h]

Write(i, v) ==
    With(write(streams[i], v), LAMBDA r :
         Step(i, r, "write", 0, 0, v,
              IF hist[i].stage = "writes" /\ ~Failed(r)
              THEN [hist[i] EXCEPT !.written = @ \o v.val]
              ELSE NoHist))

Read(i, n) ==
    Step(i, read(streams[i], n), "read", n, 0, NoVal,
         IF hist[i].stage = "rewound" /\ n = -1
         THEN [hist[i] EXCEPT !.stage = "readback"]
         ELSE NoHist)

Seek(i, a) ==
    With(seek(streams[i], a.offset, a.whence), LAMBDA r :
         Step(i, r, "seek", a.offset, a.whence, NoVal,
              IF hist[i].stage = "writes" /\ ~Failed(r) /\ a.whence = 0
              THEN [hist[i] EXCEPT !.stage = IF a.offset = 0 THEN "rewound" ELSE "moved"]
              ELSE NoHist))

Tell(i) == Step(i, tell(streams[i]), "tell", 0, 0, NoVal, NoHist)

Truncate(i) == Step(i, truncate_here(streams[i]), "truncate", 0, 0, NoVal, NoHist)

TruncateTo(i, size) == Step(i, truncate(streams[i], size), "truncate", size, 1, NoVal, NoHist)

Rollover(i) == Step(i, rollover(streams[i]), "rollover", 0, 0, NoVal, NoHist)

Fileno(i) == Step(i, fileno(streams[i]), "fileno", 0, 0, NoVal, NoHist)

Flush(i) == Step(i, flush(streams[i]), "flush", 0, 0, NoVal, NoHist)

Close(i) == Step(i, close(streams[i]), "close", 0, 0, NoVal, NoHist)

GetValue(i) == Step(i, getvalue(streams[i]), "getvalue", 0, 0, NoVal, NoHist)

LenOf(i) == Step(i, len(streams[i]), "len", 0, 0, NoVal, NoHist)

Readline(i) == Step(i, readline(streams[i]), "readline", 0, 0, NoVal, NoHist)

Readlines(i) == Step(i, readlines(streams[i]), "readlines", 0, 0, NoVal, NoHist)

NextLine(i) == Step(i, next(streams[i]), "next", 0, 0, NoVal, NoHist)

Iterate(i) == Step(i, __iter__(streams[i]), "iter", 0, 0, NoVal, NoHist)

Enter(i) == Step(i, __enter__(streams[i]), "enter", 0, 0, NoVal, NoHist)

\* The end of a with block that ended normally or by an error (raised); m
\* tells whether the backend existed when the block ended.
Exit(i, raised) ==
    Step(i, __exit__(streams[i]), "exit", IF raised THEN 1 ELSE 0,
         IF streams[i].allocated THEN 1 ELSE 0, NoVal, NoHist)

\* The effect of a comparison of stream i with stream j that returned r.
Compared(i, j, op, r) ==
    /\ streams' = [streams EXCEPT ![i] = r.a, ![j] = r.b]
    /\ last' = Call(op, i, j, 0, NoVal, streams[i].rolled, r.out, <<>>,
                    IF op = "ne" THEN Negate(r.num) ELSE r.num)
    /\ hist' = [hist EXCEPT ![i] = NoHist, ![j] = NoHist]

\* s == other and s != other, other being a stream (j in Ids) or some value
\* that is not a stream (j = 0).
Compare(i, j, op) ==
    IF j = 0
    THEN Step(i, OkNum(streams[i], IF op = "ne" THEN 1 ELSE 0), op, j, 0, NoVal, NoHist)
    ELSE IF j = i
    THEN With(eq_self(streams[i]), LAMBDA r :
              Step(i, Res(r.st, r.out, <<>>, IF op = "ne" THEN Negate(r.num) ELSE r.num),
                   op, j, 0, NoVal, NoHist))
    ELSE Compared(i, j, op, eq(streams[i], streams[j]))

Eq(i, j) == Compare(i, j, "eq")

Ne(i, j) == Compare(i, j, "ne")

Next ==
    \E i \in Ids :
        \/ \E v \in WriteValues : Write(i, v)
        \/ \E n \in ReadSizes : Read(i, n)
        \/ \E a \in SeekArgs : Seek(i, a)
        \/ Tell(i)
        \/ Truncate(i)
        \/ \E size \in TruncateSizes : TruncateTo(i, size)
        \/ Rollover(i)
        \/ Fileno(i)
        \/ Flush(i)
        \/ Close(i)
        \/ GetValue(i)
        \/ LenOf(i)
        \/ Readline(i)
        \/ Readlines(i)
        \/ NextLine(i)
        \/ Iterate(i)
        \/ Enter(i)
        \/ \E raised \in BOOLEAN : Exit(i, raised)
        \/ \E j \in Ids \cup {0} : Eq(i, j)
        \/ \E j \in Ids \cup {0} : Ne(i, j)

Spec == Init /\ [][Next]_vars

----------------------------------------------------------------------------
(* Properties.                                                              *)

\* Number of bytes the stream stores for a written value.
StoredLen(st, val) == IF IsText(st) THEN Len(Utf8Encode(val)) ELSE Len(val)

OnlyWritten(i) == hist[i].stage = "writes"

\* C1: a byte stream that has only been written to since construction, with
\* fewer bytes in total than its threshold, is still in memory and getvalue()
\* returns exactly the concatenation of what was written.
C1_BelowThresholdInMemory ==
    \A i \in Ids :
        (~IsText(streams[i]) /\ OnlyWritten(i)
            /\ Len(hist[i].written) < streams[i].max_size)
        => /\ ~_rolled(streams[i])
           /\ getvalue(streams[i]).out = "ok"
           /\ getvalue(streams[i]).data = hist[i].written

C1_Witness ==
    \E i \in Ids :
        /\ ~IsText(streams[i]) /\ OnlyWritten(i)
        /\ last.op = "write" /\ last.id = i /\ last.out = "ok"
        /\ Len(hist[i].written) >= 2
        /\ Len(hist[i].written) < streams[i].max_size
        /\ Len(last.v.val) < Len(hist[i].written)

\* C2: once the bytes written to a stream that has only been written to
\* since construction reach or exceed its threshold, the stream is on disk
\* when the write returns, and getvalue() is everything written so far.
C2_AtThresholdOnDisk ==
    \A i \in Ids :
        (OnlyWritten(i)
            /\ StoredLen(streams[i], hist[i].written) >= streams[i].max_size)
        => /\ _rolled(streams[i])
           /\ getvalue(streams[i]).out = "ok"
           /\ getvalue(streams[i]).data = hist[i].written

\* A second write crossed the threshold: the stream was in memory before it.
C2_Witness ==
    \E i \in Ids :
        /\ OnlyWritten(i)
        /\ last.op = "write" /\ last.id = i /\ last.out = "ok" /\ ~last.was
        /\ Len(last.v.val) > 0
        /\ Len(last.v.val) < Len(hist[i].written)
        /\ StoredLen(streams[i], hist[i].written) > streams[i].max_size
        /\ streams[i].rolled

\* C3: rollover() of an open in-memory stream succeeds, moves exactly the
\* stored bytes to the disk backend and leaves tell() as it was.
C3_RolloverKeepsContentAndCursor ==
    [][\A i \in Ids :
         (last'.op = "rollover" /\ last'.id = i
             /\ ~streams[i].closed /\ ~streams[i].rolled)
         => /\ last'.out = "ok"
            /\ streams'[i].rolled
            /\ streams'[i].buf = streams[i].buf
            /\ tell(streams'[i]).num = tell(streams[i]).num]_vars

\* C4: rollover() of a stream that is already on disk returns without
\* changing it, and a rollover() directly after a rollover() changes nothing.
C4_RolloverIdempotent ==
    [][\A i \in Ids :
         (last'.op = "rollover" /\ last'.id = i)
         => /\ streams[i].rolled => (last'.out = "ok" /\ streams'[i] = streams[i])
            /\ (last.op = "rollover" /\ last.id = i) => streams'[i] = streams[i]]_vars

\* rollover() has just been called on an open stream that was already on
\* disk, with content and a cursor inside it.
C4_Witness ==
    \E i \in Ids :
        /\ last.op = "rollover" /\ last.id = i /\ last.was /\ last.out = "ok"
        /\ ~streams[i].closed
        /\ streams[i].pos > 0 /\ streams[i].pos < Len(streams[i].buf)

\* C5: a write that returns advances tell() by exactly the number of bytes
\* stored for its data, whether or not it rolled the stream over.
C5_CursorContinuity ==
    [][\A i \in Ids :
         (last'.op = "write" /\ last'.id = i /\ last'.out = "ok")
         => tell(streams'[i]).num
              = tell(streams[i]).num + StoredLen(streams[i], last'.v.val)]_vars

\* A write in the middle of the stream has just rolled it over.
C5_Witness ==
    \E i \in Ids :
        /\ last.op = "write" /\ last.id = i /\ last.out = "ok"
        /\ ~last.was /\ streams[i].rolled
        /\ Len(last.v.val) > 0
        /\ streams[i].pos > StoredLen(streams[i], last.v.val)

\* C6: after writing to a new stream and seek(0), read() returns what was
\* written, as bytes for the byte variant and as text for the text variant.
C6_RoundTrip ==
    \A i \in Ids :
        hist[i].stage = "readback"
        => /\ last.op = "read" /\ last.id = i
           /\ last.out = "ok"
           /\ last.data = hist[i].written

\* Text with a two-byte character read back from a rolled-over stream.
C6_Witness ==
    \E i \in Ids :
        /\ hist[i].stage = "readback"
        /\ IsText(streams[i]) /\ streams[i].rolled
        /\ \E k \in 1..Len(hist[i].written) : hist[i].written[k] > 127
        /\ Len(hist[i].written) >= 2

\* The calls C7 is about.
CallsAfterClose ==
    {"read", "write", "seek", "tell", "truncate", "flush", "getvalue", "len",
     "rollover", "fileno"}

\* close() leaves the stream closed, and a closed stream stays closed.
StaysClosed(i) ==
    /\ (last'.op = "close" /\ last'.id = i) => (last'.out = "ok" /\ streams'[i].closed)
    /\ streams[i].closed => streams'[i].closed

\* C7 as stated: once a stream is closed it stays closed and every call of
\* read, write, seek, tell, truncate, flush, getvalue, len, rollover or
\* fileno raises.
C7_EveryCallAfterCloseFails ==
    [][\A i \in Ids :
         /\ StaysClosed(i)
         /\ (streams[i].closed /\ last'.id = i /\ last'.op \in CallsAfterClose)
            => last'.out # "ok"]_vars

\* C8: write of a value of the wrong kind raises TypeError and leaves the
\* stream exactly as it was: content, cursor, backend, rolled state.
C8_WrongKindRejected ==
    [][\A i \in Ids :
         (last'.op = "write" /\ last'.id = i
             /\ last'.v.kind # AcceptedKind(streams[i]))
         => /\ last'.out = "TypeError"
            /\ streams'[i] = streams[i]]_vars

\* A wrong-kind write has just been rejected on an in-memory stream whose
\* cursor is at or beyond the threshold.
C8_Witness ==
    \E i \in Ids :
        /\ last.op = "write" /\ last.id = i /\ last.out = "TypeError"
        /\ ~streams[i].closed /\ ~streams[i].rolled
        /\ streams[i].buf # <<>>
        /\ streams[i].pos >= streams[i].max_size

\* C9: truncate(size) with a negative size raises IOError(EINVAL) and leaves
\* the stream exactly as it was.
C9_NegativeTruncateRejected ==
    [][\A i \in Ids :
         (last'.op = "truncate" /\ last'.id = i /\ last'.m = 1 /\ last'.n < 0)
         => /\ last'.out = "IOError"
            /\ streams'[i] = streams[i]]_vars

\* truncate(-1) has just been rejected on an open text stream on disk with
\* content and the cursor inside it.
C9_Witness ==
    \E i \in Ids :
        /\ last.op = "truncate" /\ last.id = i /\ last.m = 1 /\ last.n < 0
        /\ last.out = "IOError"
        /\ IsText(streams[i]) /\ streams[i].rolled /\ ~streams[i].closed
        /\ streams[i].pos > 0 /\ streams[i].pos < Len(streams[i].buf)

----------------------------------------------------------------------------
(* Two streams, for equality.                                               *)

EqMaxLen == 2

EqThresholds == {MaxThreshold}

EqWriteValues == [kind : {"bytes"}, val : {<<97>>}] \cup [kind : {"text"}, val : {<<233>>}]

EqSeekOffsets == {0}

EqTruncateSizes == {1}

InitEq ==
    /\ streams \in [{1, 2} -> {NewStream(v, t) : v \in Variants, t \in EqThresholds}]
    /\ last = Call("init", 0, 0, 0, NoVal, FALSE, "ok", <<>>, -1)
    /\ hist = [i \in {1, 2} |-> NoHist]

InEqBounds(st) == Len(st.buf) <= EqMaxLen /\ st.pos <= EqMaxLen

NextEq ==
    /\ \E i \in Ids :
        \/ \E v \in EqWriteValues : v.kind = AcceptedKind(streams[i]) /\ Write(i, v)
        \/ \E offset \in EqSeekOffsets : Seek(i, [offset |-> offset, whence |-> 0])
        \/ \E size \in EqTruncateSizes : TruncateTo(i, size)
        \/ Rollover(i)
        \/ \E j \in Ids \cup {0} : Eq(i, j)
        \/ \E j \in Ids \cup {0} : Ne(i, j)
    /\ \A k \in Ids : InEqBounds(streams'[k])

SpecEq == InitEq /\ [][NextEq]_vars

\* What getvalue() returns for a stream whose content can be read: the
\* stored bytes, decoded for the text variant.
StoredValue(st) ==
    [kind |-> AcceptedKind(st),
     val |-> IF IsText(st) THEN Utf8Decode(st.buf, FALSE).chars ELSE st.buf]

\* C10: s1 == s2 is True exactly when the other operand is a stream and both
\* hold the same value, wherever their cursors and backends are; s1 != s2 is
\* the opposite; a comparison with something that is no stream is unequal.
C10_EqualityIsContentEquality ==
    [][(last'.op \in {"eq", "ne"} /\ last'.out = "ok")
       => LET same == /\ last'.n # 0
                      /\ StoredValue(streams[last'.id]) = StoredValue(streams[last'.n])
          IN  last'.num = (IF (last'.op = "eq") = same THEN 1 ELSE 0)]_vars

\* A rolled-over stream has just compared equal to an in-memory stream with
\* the same content and a different cursor.
C10_Witness ==
    /\ last.op = "eq" /\ last.out = "ok" /\ last.num = 1
    /\ last.id = 1 /\ last.n = 2
    /\ streams[1].rolled /\ ~streams[2].rolled
    /\ streams[1].buf # <<>>
    /\ streams[1].pos # streams[2].pos

\* C11: getvalue() on an open stream returns the whole stored content and
\* leaves the cursor, the content and the rolled state as they were.
C11_GetValueKeepsCursor ==
    [][\A i \in Ids :
         (last'.op = "getvalue" /\ last'.id = i /\ ~streams[i].closed)
         => /\ last'.out = "ok"
            /\ last'.data = StoredValue(streams[i]).val
            /\ tell(streams'[i]).num = tell(streams[i]).num
            /\ streams'[i].buf = streams[i].buf
            /\ streams'[i].rolled = streams[i].rolled]_vars

\* C12: whenever a with block ends, normally or by an error, __exit__
\* returns, the stream is closed afterwards, and an error is not suppressed;
\* this holds in memory, on disk, and when no backend had been created.
C12_ExitCloses ==
    [][\A i \in Ids :
         (last'.op = "exit" /\ last'.id = i)
         => /\ last'.out = "ok"
            /\ last'.num = 0
            /\ closed(streams'[i])
            /\ streams'[i].rolled = streams[i].rolled]_vars

\* A block that ended by an error has just been left on a stream that never
\* had a backend.
C12_Witness ==
    \E i \in Ids :
        /\ last.op = "exit" /\ last.id = i /\ last.n = 1 /\ last.m = 0
        /\ last.out = "ok" /\ streams[i].closed

\* C14: iterating an open stream yields the lines from the cursor to the
\* end, the ones readlines() returns from there.
C14_IterationYieldsLines ==
    [][\A i \in Ids :
         (last'.op = "iter" /\ last'.id = i /\ ~streams[i].closed
             /\ readlines(streams[i]).out = "ok")
         => /\ last'.out = "ok"
            /\ last'.data = readlines(streams[i]).data]_vars

\* Whether part is a run of whole characters of text.
IsRunOf(part, text) ==
    \E a \in 1..(Len(text) + 1) : \E b \in 0..Len(text) : SubSeq(text, a, b) = part

\* C15: on a text stream that was written to and then positioned by seek,
\* read(n), readline() and readlines() return, and return whole characters
\* of the written text.
C15_WholeCharacters ==
    [][\A i \in Ids :
         (IsText(streams[i]) /\ hist[i].stage \in {"rewound", "moved"}
             /\ last'.id = i /\ last'.op \in {"read", "readline", "readlines"})
         => /\ last'.out = "ok"
            /\ IF last'.op = "readlines"
               THEN \A k \in 1..Len(last'.data) : IsRunOf(last'.data[k], hist[i].written)
               ELSE IsRunOf(last'.data, hist[i].written)]_vars

\* C16: whenever a call has returned, an open stream that is still in
\* memory holds fewer bytes than its threshold.
C16_InMemoryBelowThreshold ==
    \A i \in Ids :
        (~streams[i].closed /\ ~streams[i].rolled /\ last.out = "ok")
        => Len(streams[i].buf) < streams[i].max_size

\* C17: an in-memory stream goes to disk only in write, rollover or fileno,
\* and a write that returns leaves it on disk exactly when the cursor after
\* the write is at or beyond the threshold.
C17_ThresholdOnlyOnWrite ==
    [][\A i \in Ids :
         (~streams[i].rolled /\ last'.id = i)
         => /\ streams'[i].rolled => last'.op \in {"write", "rollover", "fileno"}
            /\ (last'.op = "write" /\ last'.out = "ok")
               => (streams'[i].rolled <=> streams'[i].pos >= streams[i].max_size)]_vars

\* A seek has just put the cursor of an in-memory stream with content at or
\* beyond the threshold.
C17_Witness ==
    \E i \in Ids :
        /\ last.op = "seek" /\ last.id = i /\ last.out = "ok"
        /\ ~streams[i].closed /\ ~streams[i].rolled
        /\ streams[i].buf # <<>>
        /\ streams[i].pos >= streams[i].max_size

\* C18: a stream that is on disk is on disk after every step.
C18_OnDiskForGood ==
    [][\A i \in Ids : streams[i].rolled => streams'[i].rolled]_vars

\* truncate(0) has just emptied a stream that was on disk with content.
C18_Witness ==
    \E i \in Ids :
        /\ last.op = "truncate" /\ last.id = i /\ last.m = 1 /\ last.n = 0
        /\ last.out = "ok" /\ last.was
        /\ streams[i].rolled /\ streams[i].buf = <<>> /\ streams[i].fsize = 0

\* C19: truncate(size) with size >= 0 on an open stream returns; content no
\* longer than size is cut to its first size bytes; the cursor stays where
\* it was when it was before size and ends at size otherwise; the rolled
\* state is unchanged.
C19_TruncateToSize ==
    [][\A i \in Ids :
         (last'.op = "truncate" /\ last'.id = i /\ last'.m = 1 /\ last'.n >= 0
             /\ ~streams[i].closed)
         => /\ last'.out = "ok"
            /\ last'.n <= Len(streams[i].buf)
               => streams'[i].buf = Take(streams[i].buf, last'.n)
            /\ tell(streams'[i]).num
                 = (IF streams[i].pos < last'.n THEN streams[i].pos ELSE last'.n)
            /\ streams'[i].rolled = streams[i].rolled]_vars

\* truncate(size) has just cut content with the cursor before size.
C19_Witness ==
    \E i \in Ids :
        /\ last.op = "truncate" /\ last.id = i /\ last.m = 1 /\ last.out = "ok"
        /\ ~streams[i].closed
        /\ Len(streams[i].buf) = last.n
        /\ streams[i].pos > 0 /\ streams[i].pos < last.n

\* C20: the len property of an open stream returns the number of stored
\* bytes and leaves cursor, content and rolled state as they were.
C20_LenIsStoredLength ==
    [][\A i \in Ids :
         (last'.op = "len" /\ last'.id = i /\ ~streams[i].closed)
         => /\ last'.out = "ok"
            /\ last'.num = Len(streams[i].buf)
            /\ tell(streams'[i]).num = tell(streams[i]).num
            /\ streams'[i].buf = streams[i].buf
            /\ streams'[i].rolled = streams[i].rolled]_vars

----------------------------------------------------------------------------
(* Two streams of the same variant given the same calls: stream 1 with a    *)
(* small threshold, stream 2 with the default one, which nothing written    *)
(* here reaches.                                                            *)

\* max_size=5000000 in SpooledIOBase.__init__
DefaultMaxSize == 5000000

PairMaxLen == 2

PairWriteValues == [kind : {"bytes"}, val : {<<97>>, <<10>>}] \cup [kind : {"text"}, val : {<<233>>, <<10>>}]

PairReadSizes == {-1, 1}

PairSeekArgs == [offset : 0..1, whence : {0}] \cup [offset : {-1}, whence : {2}]

InPairBounds(st) == Len(st.buf) <= PairMaxLen /\ st.pos <= PairMaxLen

\* The call c made on stream st.
Apply(st, c) ==
    CASE c.op = "write" -> write(st, c.v)
      [] c.op = "read" -> read(st, c.n)
      [] c.op = "readline" -> readline(st)
      [] c.op = "seek" -> seek(st, c.n, c.m)
      [] c.op = "tell" -> tell(st)
      [] c.op = "truncate" -> IF c.m = 1 THEN truncate(st, c.n) ELSE truncate_here(st)
      [] c.op = "getvalue" -> getvalue(st)

InitPair ==
    /\ streams \in {<<NewStream(v, t), NewStream(v, DefaultMaxSize)>> :
                      v \in Variants, t \in 1..MaxThreshold}
    /\ last = Call("init", 0, 0, 0, NoVal, FALSE, "ok", <<>>, -1)
    /\ hist = [i \in {1, 2} |-> NoHist]

\* One call made on both streams; last describes it as stream 1 answered it.
Both(op, n, m, v) ==
    With(Call(op, 1, n, m, v, streams[1].rolled, "ok", <<>>, -1), LAMBDA c :
    With(Apply(streams[1], c), LAMBDA r1 :
    With(Apply(streams[2], c), LAMBDA r2 :
         /\ InPairBounds(r1.st) /\ InPairBounds(r2.st)
         /\ streams' = <<r1.st, r2.st>>
         /\ last' = [c EXCEPT !.out = r1.out, !.data = r1.data, !.num = r1.num]
         /\ UNCHANGED hist)))

BothWrite(v) == v.kind = AcceptedKind(streams[1]) /\ Both("write", 0, 0, v)

BothRead(n) == Both("read", n, 0, NoVal)

BothReadline == Both("readline", 0, 0, NoVal)

BothSeek(a) == Both("seek", a.offset, a.whence, NoVal)

BothTell == Both("tell", 0, 0, NoVal)

BothTruncate == Both("truncate", 0, 0, NoVal)

BothTruncateTo(size) == Both("truncate", size, 1, NoVal)

BothGetValue == Both("getvalue", 0, 0, NoVal)

NextPair ==
    \/ \E v \in PairWriteValues : BothWrite(v)
    \/ \E n \in PairReadSizes : BothRead(n)
    \/ BothReadline
    \/ \E a \in PairSeekArgs : BothSeek(a)
    \/ BothTell
    \/ BothTruncate
    \/ \E size \in 0..PairMaxLen : BothTruncateTo(size)
    \/ BothGetValue

SpecPair == InitPair /\ [][NextPair]_vars

\* C13: given the same calls, the stream with the small threshold answers
\* every call as the one that never rolls over does, and holds the same
\* content with the cursor at the same place afterwards.
C13_PhasesIndistinguishable ==
    [][With(Apply(streams[2], last'), LAMBDA r2 :
            /\ last'.out = r2.out
            /\ last'.data = r2.data
            /\ last'.num = r2.num
            /\ streams'[1].buf = streams'[2].buf
            /\ streams'[1].pos = streams'[2].pos)]_vars

====
